---- MODULE Spec2Model ----
(***************************************************************************)
(* Model of src/api/gemini-proxy.ts: the relay (handler), the operation    *)
(* dispatcher (executeFunctionCall) and the conversation orchestrator      *)
(* (checkApiConfig, handleSend) of the invoice chatbot.                     *)
(*                                                                         *)
(* Conventions.  A JavaScript object is a function from its property names *)
(* to values; a property whose value is undefined is modelled as an absent *)
(* property (which is also what JSON.stringify makes of it).  Ids are       *)
(* sequences of one-character strings so that toLowerCase is computed.     *)
(* Dates are <<year, month, day>> triples of valid calendar dates, which   *)
(* Date compares lexicographically.                                        *)
(***************************************************************************)
EXTENDS Integers, Sequences, FiniteSets, TLC

VARIABLES
    apiKey,            \* process.env.API_KEY of the relay
    clock,             \* the instant of the session: its local and its UTC date
    messages,          \* the UI message list (prop messages / setMessages)
    isLoading,         \* the busy flag (useState isLoading)
    error,             \* useState error: Null or a message
    pc,                \* position of the one async function that may be running
    geminiHistory,     \* handleSend's local geminiHistory
    geminiResponse,    \* handleSend's local geminiResponse (last relay reply)
    functionResponses, \* handleSend's local functionResponses
    fcIdx,             \* index of the next function call of the for loop
    store,             \* the invoice store owned by the parent component
    invoices,          \* the invoices prop as captured by the running closure
    nextId,            \* the store's id generator
    storeLog,          \* history: store operations issued since the last accepted send
    relayLog,          \* history: contents of each relay call of the current request
    replyLog,          \* history: relay replies received in the current request
    dispatchLog,       \* history: function calls dispatched in the current request
    reqCount,          \* history: number of accepted sends
    msgsAtAccept,      \* history: the message list right after the last accepted send
    outcome,           \* history: how the last request ended
    event,             \* history: the operation that made the last step
    execResult,        \* history: what the last executeFunctionCall did
    exchange           \* history: the last request the relay handled, and its response

vars == <<apiKey, clock, messages, isLoading, error, pc, geminiHistory, geminiResponse,
          functionResponses, fcIdx, store, invoices, nextId, storeLog, relayLog,
          replyLog, dispatchLog, reqCount, msgsAtAccept, outcome,
          event, execResult, exchange>>

(***************************************************************************)
(* Bounds of the model.                                                    *)
(***************************************************************************)
\* accepted sends per behaviour
MaxRequests == 2
\* function calls in one provider reply
MaxCalls == 2
\* dispatcher calls per behaviour of SpecExec
MaxExecCalls == 3

(***************************************************************************)
(* Values.                                                                 *)
(***************************************************************************)
Null == "null"
Undefined == "undefined"

WelcomeMessage == "chatbot.welcomeMessage"
ApiKeyMissing == "chatbot.apiKeyMissing"
ErrorMessage == "chatbot.errorMessage"

\* the object {}
Empty == [f \in {} |-> Undefined]

Pago == "Pago"
Pendente == "Pendente"
Vencido == "Vencido"

Has(obj, f) == f \in DOMAIN obj

\* {...a, ...b}
Spread(a, b) ==
    [f \in (DOMAIN a) \cup (DOMAIN b) |-> IF f \in DOMAIN b THEN b[f] ELSE a[f]]

\* an object literal built from the properties of src that are defined
Pick(src, fields) == [f \in (fields \cap DOMAIN src) |-> src[f]]

LowerChar(c) ==
    CASE c = "A" -> "a"
      [] c = "B" -> "b"
      [] c = "C" -> "c"
      [] c = "D" -> "d"
      [] c = "Z" -> "z"
      [] OTHER -> c

\* String.prototype.toLowerCase
toLowerCase(s) == [i \in 1..Len(s) |-> LowerChar(s[i])]

\* a < b for two Date objects of valid calendar dates at local midnight
DateLess(a, b) ==
    \/ a[1] < b[1]
    \/ a[1] = b[1] /\ a[2] < b[2]
    \/ a[1] = b[1] /\ a[2] = b[2] /\ a[3] < b[3]

\* index of the first invoice whose id matches case-insensitively, 0 when none
\* (invoices.find / invoices.some with inv.id.toLowerCase() === args.id.toLowerCase())
RECURSIVE FindIdx(_, _, _)
FindIdx(seq, id, i) ==
    IF i > Len(seq) THEN 0
    ELSE IF toLowerCase(seq[i].id) = toLowerCase(id) THEN i
    ELSE FindIdx(seq, id, i + 1)

(***************************************************************************)
(* The operation dispatcher.                                               *)
(*                                                                         *)
(* executeFunctionCall(invs, name, args, clk, storeOk) is what one call    *)
(* does with the closure's invoices invs at instant clk: threw says that   *)
(* the promise rejected (value is then the Error's message), ops is the    *)
(* store operation it issued (at most one) and storeOk says whether that   *)
(* store operation resolved.  kind names the shape of the returned value.  *)
(***************************************************************************)
TypeErrorMessage == "Cannot read properties of undefined"
StoreErrorMessage == "store operation failed"

Returned(kind, value, ops) ==
    [threw |-> FALSE, kind |-> kind, value |-> value, ops |-> ops]

Thrown(message, ops) ==
    [threw |-> TRUE, kind |-> "exception", value |-> message, ops |-> ops]

NotFound(id) == [error |-> [text |-> "Nota fiscal nao encontrada", id |-> id]]

ExecCreate(args, clk, storeOk) ==
    IF ~Has(args, "dueDate") THEN Thrown(TypeErrorMessage, <<>>)
    ELSE
        LET status == IF DateLess(args.dueDate, clk.local) THEN Vencido ELSE Pendente
            observations ==
                IF Has(args, "observations") /\ args.observations # ""
                THEN args.observations ELSE ""
            newInvoiceData ==
                Spread(Pick(args, {"clientName", "amount"}),
                       [issueDate |-> clk.utc, dueDate |-> args.dueDate,
                        status |-> status, observations |-> observations])
            op == [op |-> "add", record |-> newInvoiceData]
        IN  IF ~storeOk THEN Thrown(StoreErrorMessage, <<op>>)
            ELSE Returned("success",
                          Spread([success |-> TRUE], Pick(args, {"clientName", "amount"})),
                          <<op>>)

ExecGet(invs, args) ==
    IF ~Has(args, "id") THEN Thrown(TypeErrorMessage, <<>>)
    ELSE
        LET i == FindIdx(invs, args.id, 1)
        IN  IF i # 0 THEN Returned("invoice", invs[i], <<>>)
            ELSE Returned("error", NotFound(args.id), <<>>)

ExecUpdate(invs, args, storeOk) ==
    IF ~Has(args, "id") THEN Thrown(TypeErrorMessage, <<>>)
    ELSE
        LET i == FindIdx(invs, args.id, 1)
        IN  IF i = 0 THEN Returned("error", NotFound(args.id), <<>>)
            ELSE
                LET updatedInvoice == Spread(invs[i], args)
                    op == [op |-> "update", record |-> updatedInvoice]
                IN  IF ~storeOk THEN Thrown(StoreErrorMessage, <<op>>)
                    ELSE Returned("success", [success |-> TRUE, id |-> args.id], <<op>>)

ExecDelete(invs, args, storeOk) ==
    IF ~Has(args, "id") THEN Thrown(TypeErrorMessage, <<>>)
    ELSE
        LET i == FindIdx(invs, args.id, 1)
            op == [op |-> "delete", id |-> args.id]
        IN  IF i = 0 THEN Returned("error", NotFound(args.id), <<>>)
            ELSE IF ~storeOk THEN Thrown(StoreErrorMessage, <<op>>)
            ELSE Returned("success", [success |-> TRUE, id |-> args.id], <<op>>)

Summary(inv) == Pick(inv, {"id", "clientName", "amount", "status", "dueDate"})

ExecList(invs, args) ==
    LET filtered == Has(args, "status") /\ args.status # ""
        results ==
            IF filtered THEN SelectSeq(invs, LAMBDA inv : inv.status = args.status)
            ELSE invs
    IN  IF Len(results) > 0
        THEN Returned("list", [i \in 1..Len(results) |-> Summary(results[i])], <<>>)
        ELSE Returned("message",
                      [message |-> [text |-> "Nenhuma nota fiscal encontrada",
                                    status |-> IF filtered THEN args.status ELSE "qualquer"]],
                      <<>>)

ExecUnknown(name) ==
    Returned("error", [error |-> [text |-> "Funcao desconhecida", name |-> name]], <<>>)

executeFunctionCall(invs, name, args, clk, storeOk) ==
    CASE name = "createInvoice" -> ExecCreate(args, clk, storeOk)
      [] name = "getInvoiceDetails" -> ExecGet(invs, args)
      [] name = "updateInvoice" -> ExecUpdate(invs, args, storeOk)
      [] name = "deleteInvoice" -> ExecDelete(invs, args, storeOk)
      [] name = "listInvoices" -> ExecList(invs, args)
      [] OTHER -> ExecUnknown(name)

(***************************************************************************)
(* The invoice store: the parent's addInvoice, updateInvoice and           *)
(* deleteInvoice, which the component receives as props.  Ids are given by *)
(* the store and matched exactly.                                          *)
(***************************************************************************)
NewId(n) == <<"n", ToString(n)>>

ApplyStoreOp(st, op, n) ==
    CASE op.op = "add" -> Append(st, Spread(op.record, [id |-> NewId(n)]))
      [] op.op = "update" ->
            [i \in 1..Len(st) |-> IF st[i].id = op.record.id THEN op.record ELSE st[i]]
      [] op.op = "delete" -> SelectSeq(st, LAMBDA inv : inv.id # op.id)

\* the store after the operations a call issued, when they resolved
StoreAfter(st, r, storeOk, n) ==
    IF r.ops = <<>> \/ ~storeOk THEN st ELSE ApplyStoreOp(st, r.ops[1], n)

NextIdAfter(r, storeOk, n) ==
    IF r.ops # <<>> /\ storeOk /\ r.ops[1].op = "add" THEN n + 1 ELSE n

(***************************************************************************)
(* The relay.                                                              *)
(*                                                                         *)
(* A provider outcome is [kind |-> "ok", candidates |-> <<[parts |-> p]>>],*)
(* [kind |-> "error", message |-> m] (generateContent throws an Error) or  *)
(* [kind |-> "nonError"] (it throws something that is no Error).  A part   *)
(* is [text |-> t] or [functionCall |-> [name |-> n, args |-> a]].         *)
(***************************************************************************)
ApiKeyNotConfigured == "API key not configured on server."
ProviderFailed == "An error occurred while calling the Gemini API."
FailedToFetch == "Failed to fetch"

Falsy(v) == v = Undefined \/ v = ""

\* response.candidates?.[0]?.content?.parts || []
FirstParts(response) ==
    IF Len(response.candidates) = 0 THEN <<>> ELSE response.candidates[1].parts

\* response.text: the text of the first candidate's text parts, undefined when none
ResponseText(response) ==
    LET texts == SelectSeq(FirstParts(response), LAMBDA p : Has(p, "text"))
    IN  IF Len(texts) = 0 THEN Undefined ELSE texts[1].text

\* response.functionCalls: the first candidate's function calls, in order
ResponseCalls(response) ==
    LET calls == SelectSeq(FirstParts(response), LAMBDA p : Has(p, "functionCall"))
    IN  [i \in 1..Len(calls) |-> calls[i].functionCall]

Reply(status, json, called) ==
    [status |-> status, json |-> json, providerCalled |-> called, escaped |-> FALSE]

\* req.body.ping throws outside the try block when the request has no body
Escaped == [status |-> 500, json |-> Empty, providerCalled |-> FALSE, escaped |-> TRUE]

\* the handler without the probe branch (for comparison)
handlerNoPing(req, key, provider) ==
    IF req.method # "POST" THEN Reply(405, [error |-> "Method Not Allowed"], FALSE)
    ELSE IF Falsy(key) THEN Reply(500, [error |-> ApiKeyNotConfigured], FALSE)
    ELSE IF ~Has(req, "body") THEN Escaped
    ELSE IF provider.kind = "error" THEN Reply(500, [error |-> provider.message], TRUE)
    ELSE IF provider.kind = "nonError" THEN Reply(500, [error |-> ProviderFailed], TRUE)
    ELSE Reply(200, [parts |-> FirstParts(provider)], TRUE)

\* req is [method |-> m, body |-> b], without body when the request carries none
handler(req, key, provider) ==
    IF req.method # "POST" THEN Reply(405, [error |-> "Method Not Allowed"], FALSE)
    ELSE IF Falsy(key) THEN Reply(500, [error |-> ApiKeyNotConfigured], FALSE)
    ELSE IF ~Has(req, "body") THEN Escaped
    ELSE IF Has(req.body, "ping") /\ req.body.ping
        THEN Reply(200, [status |-> "ok"], FALSE)
    ELSE IF provider.kind = "error" THEN Reply(500, [error |-> provider.message], TRUE)
    ELSE IF provider.kind = "nonError" THEN Reply(500, [error |-> ProviderFailed], TRUE)
    ELSE
        LET text == ResponseText(provider)
            calls == ResponseCalls(provider)
            responseData ==
                Spread(Spread(IF text = Undefined THEN Empty ELSE [text |-> text],
                              IF Len(calls) = 0 THEN Empty ELSE [functionCalls |-> calls]),
                       [parts |-> FirstParts(provider)])
        IN  Reply(200, responseData, TRUE)

(***************************************************************************)
(* Inputs of the model.                                                    *)
(***************************************************************************)
IdAb == <<"a", "b">>
IdCd == <<"C", "d">>

Today == <<2025, 6, 15>>
Tomorrow == <<2025, 6, 16>>
Yesterday == <<2025, 6, 14>>
NextYear == <<2026, 1, 1>>

\* the session's instant: late evening west of Greenwich has utc = Tomorrow
Clocks == {[local |-> Today, utc |-> Today], [local |-> Today, utc |-> Tomorrow]}

InvoiceAb ==
    [id |-> IdAb, clientName |-> "Alice", amount |-> 100, issueDate |-> Yesterday,
     dueDate |-> NextYear, status |-> Pendente, observations |-> ""]

InvoiceCd ==
    [id |-> IdCd, clientName |-> "Bob", amount |-> 50, issueDate |-> Yesterday,
     dueDate |-> Yesterday, status |-> Pago, observations |-> "paid"]

Stores == {<<>>, <<InvoiceAb>>, <<InvoiceAb, InvoiceCd>>}

Call(name, args) == [name |-> name, args |-> args]

\* the function calls a provider reply may hold in Spec: one that changes a record, one
\* that removes it, and one whose arguments lack the id
SpecCalls ==
    { Call("updateInvoice", [id |-> IdAb, status |-> Pago]),
      Call("deleteInvoice", [id |-> IdAb]),
      Call("getInvoiceDetails", Empty) }

RECURSIVE SeqsUpTo(_, _)
SeqsUpTo(S, n) ==
    IF n = 0 THEN {<<>>}
    ELSE LET shorter == SeqsUpTo(S, n - 1)
         IN  shorter \cup {Append(q, c) : q \in shorter, c \in S}

ReplyText == "ok"

\* the parts of a provider reply: an optional text, then the function calls
ReplyParts ==
    { t \o [i \in 1..Len(q) |-> [functionCall |-> q[i]]] :
        t \in {<<>>, <<[text |-> ReplyText]>>}, q \in SeqsUpTo(SpecCalls, MaxCalls) }

Providers ==
    {[kind |-> "error", message |-> "quota exceeded"]}
        \cup {[kind |-> "ok", candidates |-> <<[parts |-> p]>>] : p \in ReplyParts}

\* how a fetch of the relay settles: the network fails, or the relay answers after the
\* provider did this
Fetches ==
    {[transport |-> "down"]} \cup {[transport |-> "up", provider |-> p] : p \in Providers}

\* the probe never reaches the provider, whose state is then any
ProbeFetches ==
    {[transport |-> "down"], [transport |-> "up", provider |-> [kind |-> "nonError"]]}

Inputs == {" ", "hi"}

\* String.prototype.trim on the inputs of the model
Trim(input) == IF input = " " THEN "" ELSE input

(***************************************************************************)
(* The conversation orchestrator.                                          *)
(***************************************************************************)
Msg(role, text) == [role |-> role, text |-> text]

\* the history adapter: filter out the initial messages, one text part per message
ToContents(msgs) ==
    LET kept == SelectSeq(msgs, LAMBDA m : m.text # WelcomeMessage /\ m.text # ApiKeyMissing)
    IN  [i \in 1..Len(kept) |-> [role |-> kept[i].role, parts |-> <<[text |-> kept[i].text]>>]]

\* inv.amount.toFixed(2) throws on an invoice without an amount
InstructionThrows(invs) == \E i \in 1..Len(invs) : ~Has(invs[i], "amount")

\* fetch('/api/gemini-proxy') and the checks of callProxy on its response
callProxy(contents, fetch) ==
    IF fetch.transport = "down" THEN [threw |-> TRUE, message |-> FailedToFetch, called |-> FALSE]
    ELSE
        LET body == [model |-> "gemini-2.5-flash", contents |-> contents,
                     config |-> [systemInstruction |-> [today |-> clock.utc, context |-> invoices]],
                     tools |-> "tools"]
            res == handler([method |-> "POST", body |-> body], apiKey, fetch.provider)
        IN  IF res.status # 200
            THEN [threw |-> TRUE,
                  message |-> IF Has(res.json, "error") /\ ~Falsy(res.json.error)
                              THEN res.json.error ELSE "API Error",
                  called |-> res.providerCalled]
            ELSE [threw |-> FALSE, json |-> res.json, called |-> res.providerCalled]

HasCalls(reply) == Has(reply, "functionCalls") /\ Len(reply.functionCalls) > 0

NoOutcome == [kind |-> "none", ignoredCalls |-> 0]

ClearLocals ==
    /\ geminiHistory' = <<>>
    /\ geminiResponse' = Empty
    /\ functionResponses' = <<>>
    /\ fcIdx' = 1

ClearLogs ==
    /\ storeLog' = <<>>
    /\ relayLog' = <<>>
    /\ replyLog' = <<>>
    /\ dispatchLog' = <<>>
    /\ execResult' = Empty

\* the finally block of handleSend; the function's locals and the request's logs end here
Finally ==
    /\ isLoading' = FALSE
    /\ pc' = "idle"
    /\ ClearLocals
    /\ ClearLogs

\* faulty variant: the catch block puts the error text in place of the message list
CatchReplacing(msgs, message) ==
    /\ error' = message
    /\ messages' = <<Msg("model", message)>>
    /\ outcome' = [kind |-> "error", ignoredCalls |-> 0]
    /\ Finally

\* the catch block of handleSend
Catch(msgs, message) ==
    /\ error' = message
    /\ messages' = Append(msgs, Msg("model", message))
    /\ outcome' = [kind |-> "error", ignoredCalls |-> 0]
    /\ Finally

\* if (geminiResponse.text) setMessages(...), then the finally block
Finish(reply) ==
    /\ messages' = IF Has(reply, "text") /\ ~Falsy(reply.text)
                   THEN Append(messages, Msg("model", reply.text)) ELSE messages
    /\ outcome' = [kind |-> "success",
                   ignoredCalls |-> IF HasCalls(reply) THEN Len(reply.functionCalls) ELSE 0]
    /\ UNCHANGED error
    /\ Finally

Init ==
    /\ apiKey \in {Undefined, "k1"}
    /\ clock = [local |-> Today, utc |-> Today]
    /\ messages = <<>>
    /\ isLoading = FALSE
    /\ error = Null
    /\ pc = "mounted"
    /\ geminiHistory = <<>>
    /\ geminiResponse = Empty
    /\ functionResponses = <<>>
    /\ fcIdx = 1
    /\ store = <<InvoiceAb, InvoiceCd>>
    /\ invoices = store
    /\ nextId = 1
    /\ storeLog = <<>>
    /\ relayLog = <<>>
    /\ replyLog = <<>>
    /\ dispatchLog = <<>>
    /\ reqCount = 0
    /\ msgsAtAccept = <<>>
    /\ outcome = NoOutcome
    /\ event = "init"
    /\ execResult = Empty
    /\ exchange = Empty

\* data.error?.includes('API key not configured'), on the error texts of the relay
IncludesNotConfigured(text) == text = ApiKeyNotConfigured

\* the effect after the first render: messages.length === 0, so checkApiConfig starts
CheckApiConfig ==
    /\ pc = "mounted"
    /\ Len(messages) = 0
    /\ isLoading' = TRUE
    /\ pc' = "probe"
    /\ event' = "checkApiConfig"
    /\ UNCHANGED <<exchange, apiKey, clock, messages, error, geminiHistory, geminiResponse,
                   functionResponses, fcIdx, store, invoices, nextId, storeLog, relayLog,
                   replyLog, dispatchLog, reqCount, msgsAtAccept, outcome, execResult>>

\* the probe's fetch settles: the rest of checkApiConfig
ProbeReturn(fetch) ==
    /\ pc = "probe"
    /\ LET res == handler([method |-> "POST", body |-> [ping |-> TRUE]], apiKey,
                          fetch.provider)
       IN  IF fetch.transport = "down"
           THEN /\ error' = ErrorMessage
                /\ messages' = <<Msg("model", ErrorMessage)>>
           ELSE IF res.status = 500 /\ Has(res.json, "error")
                   /\ IncludesNotConfigured(res.json.error)
           THEN /\ error' = ApiKeyMissing
                /\ messages' = <<Msg("model", ApiKeyMissing)>>
           ELSE /\ error' = Null
                /\ messages' = IF Len(messages) = 0
                               THEN <<Msg("model", WelcomeMessage)>> ELSE messages
    /\ isLoading' = FALSE
    /\ pc' = "idle"
    /\ event' = "probeReturn"
    /\ UNCHANGED <<exchange, apiKey, clock, geminiHistory, geminiResponse,
                   functionResponses, fcIdx, store, invoices, nextId, storeLog, relayLog,
                   replyLog, dispatchLog, reqCount, msgsAtAccept, outcome, execResult>>

\* faulty variant: the guard without the busy flag
SendIgnoredNotBusy(input) == Falsy(Trim(input)) \/ error # Null

\* faulty variant: the guard without the error state
SendIgnoredNoError(input) == Falsy(Trim(input)) \/ isLoading

\* if (!input.trim() || isLoading || error) return;
SendIgnored(input) == Falsy(Trim(input)) \/ isLoading \/ error # Null

\* The form is submitted with this input.  The effects of the first render have run
\* before the first event is handled.  The handler belongs to the latest render, whose
\* invoices are the store's.
HandleSend(input) ==
    /\ pc # "mounted"
    /\ IF SendIgnored(input)
       THEN /\ event' = "sendIgnored"
            /\ UNCHANGED <<exchange, apiKey, clock, messages, isLoading, error, pc,
                           geminiHistory, geminiResponse, functionResponses, fcIdx, store,
                           invoices, nextId, storeLog, relayLog, replyLog, dispatchLog,
                           reqCount, msgsAtAccept, outcome, execResult>>
       ELSE LET currentMessages == Append(messages, Msg("user", input))
            IN  /\ reqCount < MaxRequests
                /\ reqCount' = reqCount + 1
                /\ event' = "sendAccepted"
                /\ msgsAtAccept' = currentMessages
                /\ invoices' = store
                /\ IF InstructionThrows(store)
                   THEN Catch(currentMessages, TypeErrorMessage)
                   ELSE /\ messages' = currentMessages
                        /\ isLoading' = TRUE
                        /\ error' = Null
                        /\ geminiHistory' = ToContents(currentMessages)
                        /\ relayLog' = <<ToContents(currentMessages)>>
                        /\ pc' = "call1"
                        /\ outcome' = [kind |-> "pending", ignoredCalls |-> 0]
                        /\ geminiResponse' = Empty
                        /\ functionResponses' = <<>>
                        /\ fcIdx' = 1
                        /\ storeLog' = <<>>
                        /\ replyLog' = <<>>
                        /\ dispatchLog' = <<>>
                        /\ execResult' = Empty
                /\ UNCHANGED <<exchange, apiKey, clock, store, nextId>>

\* the reply holds function calls: push its raw parts as the model's turn and enter
\* the for loop
StartDispatching(reply) ==
    /\ geminiResponse' = reply
    /\ replyLog' = Append(replyLog, reply)
    /\ geminiHistory' = Append(geminiHistory, [role |-> "model", parts |-> reply.parts])
    /\ functionResponses' = <<>>
    /\ fcIdx' = 1
    /\ pc' = "dispatch"
    /\ UNCHANGED <<messages, isLoading, error, storeLog, relayLog, dispatchLog, outcome,
                   execResult>>

\* let geminiResponse = await callProxy(geminiHistory) settles (line 325)
RelayReply1(fetch) ==
    /\ pc = "call1"
    /\ event' = "relayReply"
    /\ LET r == callProxy(geminiHistory, fetch)
       IN  IF r.threw THEN Catch(messages, r.message)
           ELSE IF HasCalls(r.json) THEN StartDispatching(r.json)
           ELSE Finish(r.json)
    /\ UNCHANGED <<exchange, apiKey, clock, store, invoices, nextId, reqCount,
                   msgsAtAccept>>

FunctionResponse(fc, r) ==
    [functionResponse |->
        [name |-> fc.name,
         response |-> IF r.threw THEN [error |-> r.value] ELSE [result |-> r.value]]]

\* faulty variant: a call that throws leaves no response
PushResponseUncaught(responses, fc, r) ==
    IF r.threw THEN responses ELSE Append(responses, FunctionResponse(fc, r))

\* the try/catch in the body of the for loop: one response per call, thrown or not
PushResponse(responses, fc, r) == Append(responses, FunctionResponse(fc, r))

\* one iteration of the for loop: await executeFunctionCall settles; after the last
\* one the responses are pushed as one turn and the follow-up call is issued
Dispatch(storeOk) ==
    /\ pc = "dispatch"
    /\ event' = "dispatch"
    /\ LET fc == geminiResponse.functionCalls[fcIdx]
           r == executeFunctionCall(invoices, fc.name, fc.args, clock, storeOk)
           responses == PushResponse(functionResponses, fc, r)
           contents == Append(geminiHistory, [role |-> "user", parts |-> responses])
       IN  /\ execResult' = r
           /\ store' = StoreAfter(store, r, storeOk, nextId)
           /\ nextId' = NextIdAfter(r, storeOk, nextId)
           /\ storeLog' = storeLog \o r.ops
           /\ dispatchLog' = Append(dispatchLog, fc)
           /\ functionResponses' = responses
           /\ IF fcIdx = Len(geminiResponse.functionCalls)
              THEN /\ geminiHistory' = contents
                   /\ relayLog' = Append(relayLog, contents)
                   /\ pc' = "call2"
                   /\ UNCHANGED fcIdx
              ELSE /\ fcIdx' = fcIdx + 1
                   /\ UNCHANGED <<geminiHistory, relayLog, pc>>
    /\ UNCHANGED <<exchange, apiKey, clock, messages, isLoading, error, geminiResponse,
                   invoices, replyLog, reqCount, msgsAtAccept, outcome>>

\* faulty variant: the follow-up reply's function calls start another round, without end
RelayReply2Looping(fetch) ==
    /\ pc = "call2"
    /\ event' = "relayReply"
    /\ LET r == callProxy(geminiHistory, fetch)
       IN  IF r.threw THEN Catch(messages, r.message)
           ELSE IF HasCalls(r.json) THEN StartDispatching(r.json)
           ELSE Finish(r.json)
    /\ UNCHANGED <<exchange, apiKey, clock, store, invoices, nextId, reqCount,
                   msgsAtAccept>>

\* geminiResponse = await callProxy(geminiHistory) settles (line 360)
RelayReply2(fetch) ==
    /\ pc = "call2"
    /\ event' = "relayReply"
    /\ LET r == callProxy(geminiHistory, fetch)
       IN  IF r.threw THEN Catch(messages, r.message) ELSE Finish(r.json)
    /\ UNCHANGED <<exchange, apiKey, clock, store, invoices, nextId, reqCount,
                   msgsAtAccept>>

Next ==
    \/ CheckApiConfig
    \/ \E fetch \in ProbeFetches : ProbeReturn(fetch)
    \/ \E input \in Inputs : HandleSend(input)
    \/ \E fetch \in Fetches : RelayReply1(fetch)
    \/ \E storeOk \in BOOLEAN : Dispatch(storeOk)
    \/ \E fetch \in Fetches : RelayReply2(fetch)

Spec == Init /\ [][Next]_vars

\* Every fetch settles and every store operation returns: each started step of the
\* probe and of a request is eventually taken.
LiveSpec ==
    /\ Spec
    /\ WF_vars(CheckApiConfig)
    /\ WF_vars(\E fetch \in ProbeFetches : ProbeReturn(fetch))
    /\ WF_vars(\E fetch \in Fetches : RelayReply1(fetch))
    /\ WF_vars(\E storeOk \in BOOLEAN : Dispatch(storeOk))
    /\ WF_vars(\E fetch \in Fetches : RelayReply2(fetch))

\* The same session when the user may also type the very text of the welcome message.
TypedInputs == Inputs \cup {WelcomeMessage}

NextTyped ==
    \/ CheckApiConfig
    \/ \E fetch \in ProbeFetches : ProbeReturn(fetch)
    \/ \E input \in TypedInputs : HandleSend(input)
    \/ \E fetch \in Fetches : RelayReply1(fetch)
    \/ \E storeOk \in BOOLEAN : Dispatch(storeOk)
    \/ \E fetch \in Fetches : RelayReply2(fetch)

SpecTyped == Init /\ [][NextTyped]_vars

(***************************************************************************)
(* The dispatcher alone: executeFunctionCall applied to bounded inputs.    *)
(* A call reads the invoices of the render its closure belongs to; the     *)
(* parent's store changes reach the component with the next render.        *)
(***************************************************************************)
IdAB == <<"A", "B">>
Idcd == <<"c", "d">>
IdZz == <<"z", "z">>

CreateArgs ==
    { [clientName |-> "Carol", amount |-> 70, dueDate |-> NextYear, observations |-> "note"],
      [clientName |-> "Carol", amount |-> 70, dueDate |-> Yesterday],
      [clientName |-> "Carol", amount |-> 70, dueDate |-> Today],
      [amount |-> 70, dueDate |-> NextYear],
      [clientName |-> "Carol", dueDate |-> NextYear],
      [clientName |-> "Carol", amount |-> 70] }

IdArgs == {[id |-> IdAb], [id |-> IdAB], [id |-> Idcd], [id |-> IdZz], Empty}

UpdateArgs ==
    { [id |-> IdAb, status |-> Pago],
      [id |-> IdAB, status |-> Pago],
      [id |-> Idcd, amount |-> 5, clientName |-> "Dan"],
      [id |-> IdZz, status |-> Pago],
      [id |-> IdAB],
      [status |-> Pago] }

ListArgs == {Empty, [status |-> Pago], [status |-> Vencido]}

ExecCalls ==
    {Call("createInvoice", a) : a \in CreateArgs}
        \cup {Call("getInvoiceDetails", a) : a \in IdArgs}
        \cup {Call("updateInvoice", a) : a \in UpdateArgs}
        \cup {Call("deleteInvoice", a) : a \in IdArgs}
        \cup {Call("listInvoices", a) : a \in ListArgs}
        \cup {Call("sendEmail", [id |-> IdAb])}

InitExec ==
    /\ apiKey = "k1"
    /\ clock \in Clocks
    /\ messages = <<>>
    /\ isLoading = FALSE
    /\ error = Null
    /\ pc = "exec"
    /\ geminiHistory = <<>>
    /\ geminiResponse = Empty
    /\ functionResponses = <<>>
    /\ fcIdx = 1
    /\ store \in Stores
    /\ invoices = store
    /\ nextId = 1
    /\ storeLog = <<>>
    /\ relayLog = <<>>
    /\ replyLog = <<>>
    /\ dispatchLog = <<>>
    /\ reqCount = 0
    /\ msgsAtAccept = <<>>
    /\ outcome = NoOutcome
    /\ event = "init"
    /\ execResult = Empty
    /\ exchange = Empty

\* await executeFunctionCall(fc.name, fc.args) settles
ExecCall(fc, storeOk) ==
    /\ pc = "exec"
    /\ fcIdx <= MaxExecCalls
    /\ LET r == executeFunctionCall(invoices, fc.name, fc.args, clock, storeOk)
       IN  /\ execResult' = r
           /\ store' = StoreAfter(store, r, storeOk, nextId)
           /\ nextId' = NextIdAfter(r, storeOk, nextId)
           /\ storeLog' = storeLog \o r.ops
           /\ functionResponses' = PushResponse(functionResponses, fc, r)
    /\ dispatchLog' = Append(dispatchLog, fc)
    /\ fcIdx' = fcIdx + 1
    /\ event' = "exec"
    /\ UNCHANGED <<exchange, apiKey, clock, messages, isLoading, error, pc, geminiHistory,
                   geminiResponse, invoices, relayLog, replyLog, reqCount, msgsAtAccept,
                   outcome>>

\* the component renders again with the store's current invoices
Rerender ==
    /\ pc = "exec"
    /\ invoices # store
    /\ invoices' = store
    /\ event' = "rerender"
    /\ UNCHANGED <<exchange, apiKey, clock, messages, isLoading, error, pc, geminiHistory,
                   geminiResponse, functionResponses, fcIdx, store, nextId, storeLog,
                   relayLog, replyLog, dispatchLog, reqCount, msgsAtAccept, outcome,
                   execResult>>

NextExec ==
    \/ \E fc \in ExecCalls, storeOk \in BOOLEAN : ExecCall(fc, storeOk)
    \/ Rerender

SpecExec == InitExec /\ [][NextExec]_vars

(***************************************************************************)
(* The relay on its own: it is a public endpoint, so it is driven with     *)
(* every method, with and without a body, with and without the credential, *)
(* and with every outcome of the provider.                                 *)
(***************************************************************************)
Keys == {Undefined, "", "k1", "k2"}

GenerateBody ==
    [model |-> "gemini-2.5-flash",
     contents |-> <<[role |-> "user", parts |-> <<[text |-> "hi"]>>]>>,
     config |-> [systemInstruction |-> "instruction"],
     tools |-> "tools"]

Bodies ==
    { [ping |-> TRUE],
      Spread(GenerateBody, [ping |-> TRUE]),
      Spread(GenerateBody, [ping |-> FALSE]),
      GenerateBody,
      Empty }

Requests ==
    {[method |-> m] : m \in {"GET", "POST"}}
        \cup {[method |-> m, body |-> b] : m \in {"GET", "POST"}, b \in Bodies}

\* generateContent resolves, with or without candidates, or throws
RelayProviders ==
    Providers \cup {[kind |-> "nonError"], [kind |-> "ok", candidates |-> <<>>]}

\* the text of a provider error that holds configuration detail of the credential it
\* was called with
ConfigDetail(key) == "rejected: configuration of credential " \o key

\* How the provider behaves: it settles in a given way whatever the credential, or it
\* rejects the credential the relay passed to it (new GoogleGenAI({ apiKey })) with an
\* error whose text holds configuration detail.
Behaviours ==
    {[kind |-> "fixed", outcome |-> p] : p \in RelayProviders}
        \cup {[kind |-> "rejectsCredential"]}

\* what generateContent does under this behaviour when the client holds this credential
Outcome(b, key) ==
    IF b.kind = "fixed" THEN b.outcome
    ELSE [kind |-> "error", message |-> ConfigDetail(key)]

InitRelay ==
    /\ apiKey \in Keys
    /\ clock = [local |-> Today, utc |-> Today]
    /\ messages = <<>>
    /\ isLoading = FALSE
    /\ error = Null
    /\ pc = "relay"
    /\ geminiHistory = <<>>
    /\ geminiResponse = Empty
    /\ functionResponses = <<>>
    /\ fcIdx = 1
    /\ store = <<>>
    /\ invoices = store
    /\ nextId = 1
    /\ storeLog = <<>>
    /\ relayLog = <<>>
    /\ replyLog = <<>>
    /\ dispatchLog = <<>>
    /\ reqCount = 0
    /\ msgsAtAccept = <<>>
    /\ outcome = NoOutcome
    /\ event = "init"
    /\ execResult = Empty
    /\ exchange = Empty

\* one invocation of the handler
Handle(r, b) ==
    /\ pc = "relay"
    /\ LET p == Outcome(b, apiKey)
       IN  exchange' = [req |-> r, behaviour |-> b, provider |-> p,
                        res |-> handler(r, apiKey, p)]
    /\ event' = "handled"
    /\ UNCHANGED <<apiKey, clock, messages, isLoading, error, pc, geminiHistory,
                   geminiResponse, functionResponses, fcIdx, store, invoices, nextId,
                   storeLog, relayLog, replyLog, dispatchLog, reqCount, msgsAtAccept,
                   outcome, execResult>>

NextRelay == \E r \in Requests, b \in Behaviours : Handle(r, b)

SpecRelay == InitRelay /\ [][NextRelay]_vars

(***************************************************************************)
(* Properties of the orchestrator, checked under Spec and LiveSpec.        *)
(***************************************************************************)
Busy == {"probe", "call1", "dispatch", "call2"}

InRequest == pc \in {"call1", "dispatch", "call2"}

Names(calls) == [i \in 1..Len(calls) |-> calls[i].name]

ResponseNames(parts) == [i \in 1..Len(parts) |-> parts[i].functionResponse.name]

\* C1: within a request, while the calls of a reply are being dispatched no follow-up
\* relay call has been issued and the calls dispatched so far are the reply's first
\* ones, in order, one response each; once the follow-up call is issued every call of
\* the reply has been dispatched exactly once in the order received, and the follow-up
\* contents are the first call's contents, then the model turn holding the raw reply
\* parts, then one single user turn holding one function response per call, with the
\* call's name, also for calls that threw.
C1_ResponsesBatchedBeforeFollowUp ==
    /\ Len(relayLog) <= 2
    /\ pc = "dispatch" =>
          /\ Len(relayLog) = 1
          /\ Len(replyLog) = 1
          /\ dispatchLog = SubSeq(replyLog[1].functionCalls, 1, fcIdx - 1)
          /\ ResponseNames(functionResponses) = Names(dispatchLog)
    /\ Len(relayLog) = 2 =>
          LET calls == replyLog[1].functionCalls
              first == relayLog[1]
              second == relayLog[2]
              n == Len(first)
          IN  /\ pc = "call2"
              /\ dispatchLog = calls
              /\ Len(second) = n + 2
              /\ SubSeq(second, 1, n) = first
              /\ second[n + 1] = [role |-> "model", parts |-> replyLog[1].parts]
              /\ second[n + 2].role = "user"
              /\ Len(second[n + 2].parts) = Len(calls)
              /\ ResponseNames(second[n + 2].parts) = Names(calls)

\* a follow-up call was issued after two different calls, the first of which threw
C1_Witness ==
    /\ pc = "call2"
    /\ Len(relayLog) = 2
    /\ Len(dispatchLog) = 2
    /\ dispatchLog[1].name # dispatchLog[2].name
    /\ Has(functionResponses[1].functionResponse.response, "error")
    /\ Has(functionResponses[2].functionResponse.response, "result")

\* C2: a request reaches terminal success only on a relay reply without function
\* calls: no function call of any reply of the request is left undispatched.
C2_LoopsUntilNoCalls ==
    (pc = "idle" /\ outcome.kind = "success") => outcome.ignoredCalls = 0

\* C3: when a request has returned to Idle, exactly one assistant message has been
\* appended to the message list since the send was accepted.
C3_ExactlyOneAssistantMessage ==
    (pc = "idle" /\ outcome.kind \in {"success", "error"}) =>
        /\ Len(messages) = Len(msgsAtAccept) + 1
        /\ SubSeq(messages, 1, Len(msgsAtAccept)) = msgsAtAccept
        /\ messages[Len(messages)].role = "model"

\* C4: a request never issues more than two relay calls, and every request in flight
\* eventually returns to Idle with the busy flag cleared.
C4_BoundedAndTerminates ==
    /\ [](Len(relayLog) <= 2)
    /\ InRequest ~> (pc = "idle" /\ ~isLoading)

\* a request whose follow-up reply asked for further function calls is back in Idle
C4_Witness ==
    /\ pc = "idle"
    /\ ~isLoading
    /\ outcome.kind = "success"
    /\ outcome.ignoredCalls > 0

\* C5: the busy flag is set exactly while the probe or a request is in flight; a send
\* is accepted only in Idle with the flag clear, so no two requests overlap; a send
\* submitted while the flag is set changes nothing: no message, no relay call, no
\* store operation.
C5_SingleRequestInFlight ==
    [][ /\ pc' \in Busy => isLoading'
        /\ pc' = "idle" => ~isLoading'
        /\ event' = "sendAccepted" => (pc = "idle" /\ ~isLoading)
        /\ (event' = "sendIgnored" /\ isLoading) =>
              UNCHANGED <<messages, isLoading, pc, geminiHistory, store, storeLog,
                          relayLog, dispatchLog, reqCount>> ]_vars

\* a send was submitted, and ignored, while the first relay call was in flight
C5_Witness == event = "sendIgnored" /\ isLoading /\ pc = "call1"

\* C6: when a request has ended in a relay error the session is back in Idle with
\* input enabled: a non-empty send is accepted; input stays disabled only after the
\* probe found the credential missing.
C6_UsableAfterProviderError ==
    (pc = "idle" /\ outcome.kind = "error") => ~SendIgnored("hi")

(***************************************************************************)
(* Properties of the dispatcher, checked under SpecExec.                   *)
(***************************************************************************)
\* the required arguments of the tool declarations
RequiredFields(name) ==
    CASE name = "createInvoice" -> {"clientName", "amount", "dueDate"}
      [] name \in {"getInvoiceDetails", "updateInvoice", "deleteInvoice"} -> {"id"}
      [] OTHER -> {}

KnownNames ==
    {"createInvoice", "getInvoiceDetails", "updateInvoice", "deleteInvoice", "listInvoices"}

LastCall == dispatchLog[Len(dispatchLog)]

\* C7: executeFunctionCall never raises of its own: whatever the name and the
\* arguments, a call whose store operation did not fail returns a value; an unknown
\* name returns an error value and issues no store operation.
C7_ExecuteNeverRaises ==
    event = "exec" =>
        /\ execResult.threw => execResult.value = StoreErrorMessage
        /\ LastCall.name \notin KnownNames =>
              (execResult.kind = "error" /\ execResult.ops = <<>>)

\* C8: a call whose arguments lack a required field is answered with an error and
\* issues no store operation.
C8_ValidatesBeforeStore ==
    (event = "exec" /\ ~(RequiredFields(LastCall.name) \subseteq DOMAIN LastCall.args)) =>
        /\ execResult.kind \in {"error", "exception"}
        /\ execResult.ops = <<>>

\* C9: an update or delete whose id matches no invoice of the store, whatever the
\* letter case, returns an error value, issues no store operation and leaves the
\* store as it was.
C9_NotFoundIsError ==
    [][ ( /\ event' = "exec"
          /\ dispatchLog' # dispatchLog
          /\ LET fc == dispatchLog'[Len(dispatchLog')]
             IN  /\ fc.name \in {"updateInvoice", "deleteInvoice"}
                 /\ Has(fc.args, "id")
                 /\ FindIdx(store, fc.args.id, 1) = 0 )
        => ( /\ execResult'.kind = "error"
             /\ execResult'.ops = <<>>
             /\ store' = store ) ]_vars

\* C10: for a stored invoice and an argument id that differs from its id only in
\* letter case, read returns that invoice, update hands the store a record that keeps
\* the stored id, delete hands the store the stored id, and the store operation is the
\* one issued when the stored id is given exactly.
C10_CaseInsensitiveSameOutcome ==
    ( /\ event = "exec"
      /\ LastCall.name \in {"getInvoiceDetails", "updateInvoice", "deleteInvoice"}
      /\ Has(LastCall.args, "id")
      /\ FindIdx(invoices, LastCall.args.id, 1) # 0
      /\ invoices[FindIdx(invoices, LastCall.args.id, 1)].id # LastCall.args.id )
    => LET stored == invoices[FindIdx(invoices, LastCall.args.id, 1)]
           exactArgs == Spread(LastCall.args, [id |-> stored.id])
           exact == executeFunctionCall(invoices, LastCall.name, exactArgs, clock,
                                        ~execResult.threw)
       IN  /\ LastCall.name = "getInvoiceDetails" =>
                 (execResult.kind = "invoice" /\ execResult.value = stored)
           /\ LastCall.name = "updateInvoice" =>
                 (Len(execResult.ops) = 1 /\ execResult.ops[1].record.id = stored.id)
           /\ LastCall.name = "deleteInvoice" =>
                 (Len(execResult.ops) = 1 /\ execResult.ops[1].id = stored.id)
           /\ execResult.ops = exact.ops

\* C11: a create call holding every required argument hands the store's add one
\* record whose status is Overdue exactly when the due date is before today's date and
\* Pending otherwise, whose issue date is the session's current local date and whose
\* observations default to the empty string; when the add resolves the call returns a
\* success value echoing clientName and amount.
C11_CreateRecord ==
    ( /\ event = "exec"
      /\ LastCall.name = "createInvoice"
      /\ RequiredFields("createInvoice") \subseteq DOMAIN LastCall.args )
    => /\ Len(execResult.ops) = 1
       /\ execResult.ops[1].op = "add"
       /\ LET record == execResult.ops[1].record
              args == LastCall.args
          IN  /\ record.status =
                    (IF DateLess(args.dueDate, clock.local) THEN Vencido ELSE Pendente)
              /\ record.issueDate = clock.local
              /\ record.observations =
                    (IF Has(args, "observations") THEN args.observations ELSE "")
              /\ record.clientName = args.clientName
              /\ record.amount = args.amount
              /\ record.dueDate = args.dueDate
              /\ ~execResult.threw =>
                    /\ execResult.kind = "success"
                    /\ execResult.value = [success |-> TRUE, clientName |-> args.clientName,
                                           amount |-> args.amount]

\* C12: an update whose id matches an invoice of the store hands the store's update one
\* record in which every field named in the arguments has the argument's value and
\* every other field has the value of the stored invoice; no other invoice of the
\* store changes.
C12_UpdateMerges ==
    [][ ( /\ event' = "exec"
          /\ dispatchLog' # dispatchLog
          /\ LET fc == dispatchLog'[Len(dispatchLog')]
             IN  /\ fc.name = "updateInvoice"
                 /\ Has(fc.args, "id")
                 /\ FindIdx(store, fc.args.id, 1) # 0 )
        => LET fc == dispatchLog'[Len(dispatchLog')]
               i == FindIdx(store, fc.args.id, 1)
           IN  /\ Len(execResult'.ops) = 1
               /\ execResult'.ops[1].op = "update"
               /\ LET record == execResult'.ops[1].record
                  IN  /\ DOMAIN record = DOMAIN store[i] \cup DOMAIN fc.args
                      /\ \A f \in DOMAIN fc.args : record[f] = fc.args[f]
                      /\ \A f \in DOMAIN store[i] \ DOMAIN fc.args : record[f] = store[i][f]
               /\ Len(store') = Len(store)
               /\ \A j \in 1..Len(store) : j # i => store'[j] = store[j] ]_vars

\* C13: when the same update is issued twice in a row with identical arguments, in the
\* same request or with a render in between, and neither store operation fails, the
\* store after the second call is the store after the first and both calls return the
\* same result.
C13_UpdateIdempotent ==
    [][ ( /\ event' = "exec"
          /\ Len(dispatchLog') >= 2
          /\ dispatchLog' # dispatchLog
          /\ dispatchLog'[Len(dispatchLog')] = dispatchLog[Len(dispatchLog)]
          /\ dispatchLog'[Len(dispatchLog')].name = "updateInvoice"
          /\ ~execResult.threw
          /\ ~execResult'.threw )
        => ( /\ store' = store
             /\ execResult'.kind = execResult.kind
             /\ execResult'.value = execResult.value ) ]_vars

\* C14: a list call never returns an empty list: without a filter it returns one
\* reduced projection (id, clientName, amount, status, dueDate) per invoice of the
\* store, in store order, with a status filter exactly the projections of the store's
\* invoices with that status, and a message object when there is none; it issues no
\* store operation.
C14_ListProjection ==
    [][ ( /\ event' = "exec"
          /\ dispatchLog' # dispatchLog
          /\ dispatchLog'[Len(dispatchLog')].name = "listInvoices" )
        => LET args == dispatchLog'[Len(dispatchLog')].args
               matching ==
                   IF Has(args, "status")
                   THEN SelectSeq(store, LAMBDA inv : inv.status = args.status)
                   ELSE store
               projections ==
                   [i \in 1..Len(matching) |->
                       Pick(matching[i], {"id", "clientName", "amount", "status", "dueDate"})]
           IN  /\ ~execResult'.threw
               /\ execResult'.ops = <<>>
               /\ store' = store
               /\ execResult'.kind \in {"list", "message"}
               /\ execResult'.kind = "list" =>
                     (execResult'.value # <<>> /\ execResult'.value = projections)
               /\ execResult'.kind = "message" => matching = <<>> ]_vars

(***************************************************************************)
(* Properties of the relay, checked under SpecRelay.                       *)
(***************************************************************************)
IsProbe(r) == r.method = "POST" /\ Has(r, "body") /\ Has(r.body, "ping") /\ r.body.ping

\* C15: a POST carrying the probe flag never causes a call to the provider, and
\* whenever the credential is present it is answered with status 200, whatever the
\* provider would do and whatever else the body holds.
C15_ProbeNeverCallsProvider ==
    (event = "handled" /\ IsProbe(exchange.req)) =>
        /\ ~exchange.res.providerCalled
        /\ ~Falsy(apiKey) => (~exchange.res.escaped /\ exchange.res.status = 200)

\* a probe that also holds a generation request was answered 200 while the credential
\* is present and the provider is failing
C15_Witness ==
    /\ event = "handled"
    /\ IsProbe(exchange.req)
    /\ Has(exchange.req.body, "contents")
    /\ exchange.provider.kind = "error"
    /\ apiKey = "k1"
    /\ exchange.res.status = 200
    /\ ~exchange.res.providerCalled

\* C16: the relay answers every request with one response and lets no exception
\* escape: a non-POST request gets 405 and the provider is not contacted; a POST that
\* is no probe gets 500 with an error message when the credential is missing (the
\* provider is not contacted) or the provider fails in any way, and otherwise 200 with
\* text, functionCalls and parts, where parts is the first candidate's parts or empty.
C16_AlwaysOneResponse ==
    event = "handled" =>
        LET r == exchange.req
            p == exchange.provider
            res == exchange.res
        IN  /\ ~res.escaped
            /\ r.method # "POST" => (res.status = 405 /\ ~res.providerCalled)
            /\ (r.method = "POST" /\ ~IsProbe(r)) =>
                  IF Falsy(apiKey)
                  THEN res.status = 500 /\ Has(res.json, "error") /\ ~res.providerCalled
                  ELSE IF p.kind # "ok"
                  THEN res.status = 500 /\ Has(res.json, "error") /\ res.json.error # ""
                  ELSE /\ res.status = 200
                       /\ DOMAIN res.json \subseteq {"text", "functionCalls", "parts"}
                       /\ Has(res.json, "parts")
                       /\ res.json.parts =
                             (IF p.candidates = <<>> THEN <<>> ELSE p.candidates[1].parts)

(***************************************************************************)
(* Further properties of the orchestrator, checked under Spec.             *)
(***************************************************************************)
\* C17: a probe that reaches the relay while the credential is missing ends in the
\* unavailable state (one that does not reach it, in the probe-failed state); in the
\* unavailable state the fixed unavailable message is the only message and the session accepts no send: no
\* message is added, no generation request reaches the relay and no store operation
\* is issued, and the session stays in that state.
C17_MissingCredentialBlocksSends ==
    [][ /\ (event' = "probeReturn" /\ Falsy(apiKey)) =>
              error' \in {ApiKeyMissing, ErrorMessage}
        /\ error' = ApiKeyMissing =>
              /\ messages' = <<Msg("model", ApiKeyMissing)>>
              /\ pc' = "idle"
              /\ ~isLoading'
              /\ relayLog' = <<>>
              /\ storeLog' = <<>>
        /\ error = ApiKeyMissing =>
              /\ event' # "sendAccepted"
              /\ UNCHANGED <<error, messages, pc, isLoading, relayLog, storeLog, store,
                             reqCount>> ]_vars

\* a send was submitted, and ignored, after the probe found the credential missing
C17_Witness ==
    /\ Falsy(apiKey)
    /\ error = ApiKeyMissing
    /\ event = "sendIgnored"
    /\ messages = <<Msg("model", ApiKeyMissing)>>
    /\ reqCount = 0

\* C18: every call dispatched in a request reads the store as it is at the moment of
\* that call: it returns what the dispatcher returns on the store's current contents,
\* so a call that follows a delete or an update in the same reply observes its effect.
C18_ReadsCurrentStore ==
    [][ (event' = "dispatch" /\ ~execResult'.threw) =>
            LET fc == dispatchLog'[Len(dispatchLog')]
                current == executeFunctionCall(store, fc.name, fc.args, clock, TRUE)
            IN  /\ execResult'.kind = current.kind
                /\ execResult'.value = current.value
                /\ execResult'.ops = current.ops ]_vars

\* the error texts a relay call can fail with
RelayErrors ==
    {FailedToFetch, ApiKeyNotConfigured, ProviderFailed}
        \cup {p.message : p \in {q \in Providers : q.kind = "error"}}

\* C19: when a relay call of a request fails, at the first or at the follow-up call,
\* the request ends there: the session is back in Idle with the busy flag cleared, the
\* error text is appended as one assistant message after the messages that were there,
\* the request's user message included, all unchanged and in order, the failing step
\* issues no store operation, and nothing but a newly accepted send starts another
\* relay call or store operation.
C19_RelayErrorAborts ==
    [][ /\ (event' = "relayReply" /\ outcome'.kind = "error") =>
              /\ pc' = "idle"
              /\ ~isLoading'
              /\ error' \in RelayErrors
              /\ messages' = Append(messages, Msg("model", error'))
              /\ messages' = Append(msgsAtAccept, Msg("model", error'))
              /\ msgsAtAccept[Len(msgsAtAccept)].role = "user"
              /\ store' = store
        /\ (outcome.kind = "error" /\ event' # "sendAccepted") =>
              UNCHANGED <<messages, pc, isLoading, store, relayLog, dispatchLog,
                          storeLog>> ]_vars

\* the follow-up call of a request failed after the reply's calls had changed the store
C19_Witness ==
    /\ pc = "idle"
    /\ ~isLoading
    /\ reqCount = 1
    /\ outcome.kind = "error"
    /\ store # <<InvoiceAb, InvoiceCd>>
    /\ messages = <<Msg("model", WelcomeMessage), Msg("user", "hi"),
                    Msg("model", "quota exceeded")>>

\* The probe leaves one message, its welcome or notice, at the head of the list; every
\* later message is a user's or an assistant's.
Genuine(msgs) == Tail(msgs)

\* C20: the contents of the first relay call of a request are the messages of the
\* list, ending with the new user message, without the probe's placeholder: one turn
\* per user or assistant message, with its role and one text part, in order; the
\* placeholder is not sent and no user or assistant message is dropped.
C20_FirstCallContents ==
    pc = "call1" =>
        LET kept == Genuine(messages)
        IN  /\ Len(relayLog) = 1
            /\ messages[Len(messages)].role = "user"
            /\ relayLog[1] =
                  [i \in 1..Len(kept) |->
                      [role |-> kept[i].role, parts |-> <<[text |-> kept[i].text]>>]]

\* C21: no response of the relay carries the credential or depends on its value: the
\* same request under the same provider behaviour gets the same response whichever
\* credential is configured, and the error text of a response never is a provider
\* text holding configuration detail.
C21_ResponseIndependentOfCredential ==
    (event = "handled" /\ ~Falsy(apiKey)) =>
        /\ \A other \in {k \in Keys : ~Falsy(k)} :
              handler(exchange.req, other, Outcome(exchange.behaviour, other))
                  = exchange.res
        /\ Has(exchange.res.json, "error") =>
              exchange.res.json.error \notin {ConfigDetail(k) : k \in Keys}

====
